---- MODULE Spec2Model ----
(***************************************************************************)
(* Model of the letter composer (main.py) and of the style-transfer        *)
(* request path (genai_1_24.py).                                           *)
(*                                                                         *)
(* Text is a sequence of Unicode code points.  Python values whose type    *)
(* the code inspects with isinstance / truthiness are records tagged with  *)
(* their type name in field t.                                             *)
(***************************************************************************)
EXTENDS Integers, Sequences, FiniteSets, TLC

VARIABLES
    (* count_words(text) *)
    cw_pc, text, cw_result,
    (* detect_letter_type(letter_type_arg) *)
    lt_pc, letter_type_arg, lt_result,
    (* main(): the refinement loop *)
    pc, letter_type, body, w, tries_done, sent, calls, engine,
    first_body, all_outside, last_reply,
    (* inference(style, input, pipe, token_limit, len_limit) *)
    inf_pc, style, input, pipe, token_limit, len_limit,
    message, answer, error, engine_log

wordsVars == <<cw_pc, text, cw_result>>
typeVars  == <<lt_pc, letter_type_arg, lt_result>>
loopVars  == <<pc, letter_type, body, w, tries_done, sent, calls, engine,
               first_body, all_outside, last_reply>>
infVars   == <<inf_pc, style, input, pipe, token_limit, len_limit,
               message, answer, error, engine_log>>
vars == <<wordsVars, typeVars, loopVars, infVars>>

----------------------------------------------------------------------------
(* Bounds of the model. *)

MaxTextLen == 4
MaxPad == 1
GridStep == 10
MaxGrid == 16
MaxDeltaSteps == 6
MaxStrLen == 2
MaxLines == 3
MaxLenLimit == 1

----------------------------------------------------------------------------
(* Python values. *)

NoneVal == [t |-> "NoneType", s |-> <<>>]
Str(s)  == [t |-> "str", s |-> s]

RECURSIVE SeqsUpTo(_, _)
SeqsUpTo(S, n) ==
    IF n = 0 THEN {<<>>}
    ELSE LET shorter == SeqsUpTo(S, n - 1)
         IN  shorter \cup {Append(q, c) : q \in shorter, c \in S}

----------------------------------------------------------------------------
(* main.py: count_words *)

MIN_WORDS == 100
MAX_WORDS == 150

(* Fault: the class without the apostrophe. *)
M_IsWordChar_NoApostrophe(c) ==
    \/ c \in 65..90
    \/ c \in 97..122
    \/ c \in 1040..1071
    \/ c \in 1072..1103
    \/ c = 1025
    \/ c = 1105
    \/ c \in 48..57

(* The character class [A-Za-zА-Яа-яЁё0-9'] *)
IsWordChar(c) ==
    \/ c \in 65..90
    \/ c \in 97..122
    \/ c \in 1040..1071
    \/ c \in 1072..1103
    \/ c = 1025
    \/ c = 1105
    \/ c \in 48..57
    \/ c = 39

(* The end of the greedy match of [..]+ that starts at position k. *)
RECURSIVE MatchEnd(_, _)
MatchEnd(txt, k) ==
    IF k < Len(txt) /\ IsWordChar(txt[k + 1]) THEN MatchEnd(txt, k + 1) ELSE k

(* One step of the scan of re.findall at position st.k: where a match      *)
(* starts, take the greedy match and resume after it; where none starts,   *)
(* move one position on.                                                   *)
ScanStep(txt, st) ==
    IF st.k > Len(txt) THEN st
    ELSE IF IsWordChar(txt[st.k])
         THEN LET e == MatchEnd(txt, st.k)
              IN  [k |-> e + 1, found |-> Append(st.found, SubSeq(txt, st.k, e))]
         ELSE [k |-> st.k + 1, found |-> st.found]

(* n steps of the scan, split in halves to keep the evaluation shallow:    *)
(* mid is the state after the first half of the steps.                     *)
RECURSIVE Scan(_, _, _)
Scan(txt, st, n) ==
    IF n = 0 THEN st
    ELSE IF n = 1 THEN ScanStep(txt, st)
    ELSE CHOOSE after \in {Scan(txt, mid, n - (n \div 2)) :
                              mid \in {Scan(txt, st, n \div 2)}} : TRUE

(* re.findall(pattern, text): every step moves on by one position at      *)
(* least, so Len(txt) steps reach the end of the text.                     *)
findall(txt) == Scan(txt, [k |-> 1, found |-> <<>>], Len(txt)).found

count_words(txt) == Len(findall(txt))

(* Latin lower and upper, Cyrillic inside and outside the class, digit,    *)
(* apostrophe, underscore, white space.                                    *)
WordAlphabet == {97, 90, 1105, 1104, 55, 39, 95, 32}

HELLO == <<72, 101, 108, 108, 111, 44, 32, 119, 111, 114, 108, 100, 33, 32,
           49, 50, 51, 32, 100, 111, 110, 39, 116>>
PRIVET == <<1055, 1088, 1080, 1074, 1077, 1090, 32, 1084, 1080, 1088>>

WordTexts == SeqsUpTo(WordAlphabet, MaxTextLen) \cup {HELLO, PRIVET}

CountWords ==
    /\ cw_pc = "call"
    /\ cw_result' = count_words(text)
    /\ cw_pc' = "returned"
    /\ UNCHANGED <<text, typeVars, loopVars, infVars>>

----------------------------------------------------------------------------
(* str.strip() and str.lower() *)

(* str.isspace() of one character *)
IsSpace(c) ==
    \/ c \in 9..13
    \/ c \in 28..32
    \/ c \in {133, 160, 5760, 8232, 8233, 8239, 8287, 12288}
    \/ c \in 8192..8202

RECURSIVE lstrip(_)
lstrip(s) == IF s # <<>> /\ IsSpace(Head(s)) THEN lstrip(Tail(s)) ELSE s

RECURSIVE rstrip(_)
rstrip(s) ==
    IF s # <<>> /\ IsSpace(s[Len(s)]) THEN rstrip(SubSeq(s, 1, Len(s) - 1)) ELSE s

strip(s) == rstrip(lstrip(s))

LowerChar(c) ==
    IF c \in 65..90 THEN c + 32
    ELSE IF c \in 1040..1071 THEN c + 32
    ELSE IF c \in 1024..1039 THEN c + 80
    ELSE c

lower(s) == [k \in 1..Len(s) |-> LowerChar(s[k])]

----------------------------------------------------------------------------
(* main.py: detect_letter_type *)

FORMAL     == <<1086, 1092, 1080, 1094, 1080, 1072, 1083, 1100, 1085, 1086, 1077>>
INFORMAL   == <<1076, 1088, 1091, 1078, 1077, 1089, 1082, 1086, 1077>>
S_of       == <<1086, 1092>>
S_formal   == <<102, 111, 114, 109, 97, 108>>
S_official == <<111, 102, 102, 105, 99, 105, 97, 108>>
S_dr       == <<1076, 1088>>
S_friendly == <<102, 114, 105, 101, 110, 100, 108, 121>>
S_informal == <<105, 110, 102, 111, 114, 109, 97, 108>>

FormalSpellings   == {S_of, FORMAL, S_formal, S_official}
InformalSpellings == {S_dr, INFORMAL, S_friendly, S_informal}

(* `not x` for None and for a str *)
Falsy(x) == x.t = "NoneType" \/ (x.t = "str" /\ x.s = <<>>)

(* Fault: the flag is stripped but not put in lower case. *)
M_detect_letter_type_NoLower(arg) ==
    IF Falsy(arg) THEN FORMAL
    ELSE LET s == strip(arg.s)
         IN  IF s \in FormalSpellings THEN FORMAL
             ELSE IF s \in InformalSpellings THEN INFORMAL
             ELSE FORMAL

detect_letter_type(arg) ==
    IF Falsy(arg) THEN FORMAL
    ELSE LET s == lower(strip(arg.s))
         IN  IF s \in FormalSpellings THEN FORMAL
             ELSE IF s \in InformalSpellings THEN INFORMAL
             ELSE FORMAL

(* The flags a caller may pass: the recognised spellings and some that are *)
(* not, in lower case, upper case or capitalised, with white space around. *)
UpperChar(c) ==
    IF c \in 97..122 THEN c - 32
    ELSE IF c \in 1072..1103 THEN c - 32
    ELSE c

Upper(s)      == [k \in 1..Len(s) |-> UpperChar(s[k])]
Capitalize(s) == [k \in 1..Len(s) |-> IF k = 1 THEN UpperChar(s[k]) ELSE s[k]]

S_dr_dot    == <<1076, 1088, 46>>
S_in_formal == <<105, 110, 32, 102, 111, 114, 109, 97, 108>>
S_friend    == <<102, 114, 105, 101, 110, 100>>

FlagBases ==
    FormalSpellings \cup InformalSpellings \cup {<<>>, S_dr_dot, S_in_formal, S_friend}

Pads == SeqsUpTo({32, 10}, MaxPad)

Flags ==
    {NoneVal} \cup
    {Str(l \o c \o r) :
        l \in Pads, r \in Pads,
        c \in UNION {{b, Upper(b), Capitalize(b)} : b \in FlagBases}}

DetectLetterType ==
    /\ lt_pc = "call"
    /\ lt_result' = detect_letter_type(letter_type_arg)
    /\ lt_pc' = "returned"
    /\ UNCHANGED <<letter_type_arg, wordsVars, loopVars, infVars>>

----------------------------------------------------------------------------
(* main.py: main(), the length-constrained refinement loop *)

(* Fault: a budget of one attempt less. *)
M_tries_OneLess == 6 - 1

tries == 6

EXPAND_INSTR ==
    <<10, 10, 1057, 1076, 1077, 1083, 1072, 1081, 32, 1087, 1080, 1089, 1100,
      1084, 1086, 32, 1095, 1091, 1090, 1100, 32, 1087, 1086, 1076, 1088,
      1086, 1073, 1085, 1077, 1077, 46>>
SHORTEN_INSTR ==
    <<10, 10, 1057, 1086, 1082, 1088, 1072, 1090, 1080, 32, 1087, 1080, 1089,
      1100, 1084, 1086, 32, 1076, 1086, 32, 49, 48, 48, 8211, 49, 53, 48, 32,
      1089, 1083, 1086, 1074, 46>>

style_for_tg == IF letter_type = FORMAL THEN S_official ELSE S_friendly

InBounds(n) == MIN_WORDS <= n /\ n <= MAX_WORDS

(* The engine behind tg.run_style_transfer: a reply is a text of some      *)
(* number of words.  A "grow" engine answers with delta words more than    *)
(* the body it was sent (delta 0: the length never changes); a "free"      *)
(* engine answers with any text.                                           *)
MkText(n) == [k \in 1..(2 * n - 1) |-> IF k % 2 = 1 THEN 1105 ELSE 32]

EdgeWords == {MIN_WORDS - 1, MIN_WORDS, MAX_WORDS, MAX_WORDS + 1}
BodyWords == {0, 1} \cup EdgeWords \cup {k * GridStep : k \in 0..MaxGrid}
Deltas    == {0, 1} \cup {k * GridStep : k \in 1..MaxDeltaSteps}

Engines ==
    {[kind |-> "grow", delta |-> d] : d \in Deltas} \cup {[kind |-> "free", delta |-> 0]}

run_style_transfer(eng, current) ==
    IF eng.kind = "grow"
    THEN {MkText(count_words(current) + eng.delta)}
    ELSE {MkText(n) : n \in EdgeWords \cup {0, MIN_WORDS + GridStep}}

NoCall == [text |-> <<>>, style |-> <<>>]

(* Fault: the bounds are taken as strict, so a body of exactly MIN_WORDS   *)
(* or MAX_WORDS words is corrected.                                        *)
M_LoopCheck_StrictBounds ==
    /\ pc = "for"
    /\ tries_done < tries
    /\ w' = count_words(body)
    /\ IF MIN_WORDS < w' /\ w' < MAX_WORDS
       THEN /\ pc' = "done"
            /\ UNCHANGED <<sent, calls>>
       ELSE /\ pc' = "call"
            /\ sent' = [text  |-> body \o (IF w' < MIN_WORDS THEN EXPAND_INSTR
                                                              ELSE SHORTEN_INSTR),
                        style |-> style_for_tg]
            /\ calls' = calls + 1
    /\ UNCHANGED <<letter_type, body, tries_done, engine,
                   first_body, all_outside, last_reply>>
    /\ UNCHANGED <<wordsVars, typeVars, infVars>>

(* Fault: the two instructions are swapped. *)
M_LoopCheck_SwappedInstr ==
    /\ pc = "for"
    /\ tries_done < tries
    /\ w' = count_words(body)
    /\ IF MIN_WORDS <= w' /\ w' <= MAX_WORDS
       THEN /\ pc' = "done"
            /\ UNCHANGED <<sent, calls>>
       ELSE /\ pc' = "call"
            /\ sent' = [text  |-> body \o (IF w' < MIN_WORDS THEN SHORTEN_INSTR
                                                              ELSE EXPAND_INSTR),
                        style |-> style_for_tg]
            /\ calls' = calls + 1
    /\ UNCHANGED <<letter_type, body, tries_done, engine,
                   first_body, all_outside, last_reply>>
    /\ UNCHANGED <<wordsVars, typeVars, infVars>>

(* One pass of the loop body up to the call of the style transfer: count,  *)
(* break when the count is in bounds, else send the body with the          *)
(* instruction that fits.                                                  *)
LoopCheck ==
    /\ pc = "for"
    /\ tries_done < tries
    /\ w' = count_words(body)
    /\ IF MIN_WORDS <= w' /\ w' <= MAX_WORDS
       THEN /\ pc' = "done"
            /\ UNCHANGED <<sent, calls>>
       ELSE /\ pc' = "call"
            /\ sent' = [text  |-> body \o (IF w' < MIN_WORDS THEN EXPAND_INSTR
                                                              ELSE SHORTEN_INSTR),
                        style |-> style_for_tg]
            /\ calls' = calls + 1
    /\ UNCHANGED <<letter_type, body, tries_done, engine,
                   first_body, all_outside, last_reply>>
    /\ UNCHANGED <<wordsVars, typeVars, infVars>>

(* The style transfer returns: its reply becomes the body and the pass of  *)
(* the loop ends.                                                          *)
LoopReply ==
    /\ pc = "call"
    /\ \E reply \in run_style_transfer(engine, body) :
          /\ body' = reply
          /\ last_reply' = reply
          /\ all_outside' = (all_outside /\ ~InBounds(count_words(reply)))
    /\ tries_done' = tries_done + 1
    /\ pc' = "for"
    /\ UNCHANGED <<letter_type, w, sent, calls, engine, first_body>>
    /\ UNCHANGED <<wordsVars, typeVars, infVars>>

(* range(tries) is used up: the loop ends with the body as it is. *)
LoopExhausted ==
    /\ pc = "for"
    /\ tries_done = tries
    /\ pc' = "done"
    /\ UNCHANGED <<letter_type, body, w, tries_done, sent, calls, engine,
                   first_body, all_outside, last_reply>>
    /\ UNCHANGED <<wordsVars, typeVars, infVars>>

LoopNext == LoopCheck \/ LoopReply \/ LoopExhausted

----------------------------------------------------------------------------
(* genai_1_24.py: inference *)

MAX_OUTPUT_TOKENS == 50

SYSTEM_CONTENT ==
    <<1058, 1074, 1086, 1103, 32, 1079, 1072, 1076, 1072, 1095, 1072, 32, 8212,
      32, 1087, 1077, 1088, 1077, 1092, 1088, 1072, 1079, 1080, 1088, 1086,
      1074, 1072, 1090, 1100, 32, 1074, 32, 1091, 1082, 1072, 1079, 1072, 1085,
      1085, 1086, 1084, 32, 1089, 1090, 1080, 1083, 1077, 32, 1090, 1077, 1082,
      1089, 1090, 44, 32, 1082, 1086, 1090, 1086, 1088, 1099, 1081, 32, 1087,
      1088, 1080, 1089, 1099, 1083, 1072, 1077, 1090, 32, 1087, 1086, 1083,
      1100, 1079, 1086, 1074, 1072, 1090, 1077, 1083, 1100, 46, 32, 1053, 1077,
      32, 1076, 1086, 1073, 1072, 1074, 1083, 1103, 1081, 32, 1085, 1080, 1095,
      1077, 1075, 1086, 32, 1086, 1090, 32, 1089, 1077, 1073, 1103, 44, 32,
      1076, 1072, 1078, 1077, 32, 1082, 1072, 1074, 1099, 1095, 1082, 1080, 46>>
USER_PREFIX   == <<1058, 1077, 1082, 1089, 1090, 58, 32, 34>>
USER_MIDDLE   == <<34, 10, 1057, 1090, 1080, 1083, 1100, 58, 32>>
DEFAULT_STYLE == <<1054, 1092, 1080, 1094, 1080, 1072, 1083, 1100, 1085, 1099, 1081>>

(* Values of the arguments.  input: a str (field s), a list (field l) or   *)
(* something else; len_limit and token_limit: None or an int (field n).    *)
Bytes(s)  == [t |-> "bytes", s |-> s]
StrIn(s)  == [t |-> "str", s |-> s, l |-> <<>>]
ListIn(l) == [t |-> "list", s |-> <<>>, l |-> l]
TupleIn   == [t |-> "tuple", s |-> <<>>, l |-> <<>>]
NoneInt   == [t |-> "NoneType", n |-> 0]
IntVal(n)    == [t |-> "int", n |-> n]
Pipeline  == [t |-> "TextGenerationPipeline"]
Callable  == [t |-> "function"]

(* The two turns of one request, lines 71-74 and 90-93 *)
Conversation(txt, sty) ==
    << [role |-> "system", content |-> SYSTEM_CONTENT],
       [role |-> "user", content |-> USER_PREFIX \o txt \o USER_MIDDLE \o sty.s] >>

(* Fault: a line that is empty once stripped leaves a request of its own. *)
RECURSIVE M_BatchLoop_Placeholder(_, _, _, _, _)
M_BatchLoop_Placeholder(lines, k, msg, sty, limit) ==
    IF k > Len(lines) THEN [raised |-> FALSE, message |-> msg]
    ELSE IF lines[k].t # "str" THEN M_BatchLoop_Placeholder(lines, k + 1, msg, sty, limit)
    ELSE LET ln == strip(lines[k].s)
         IN  IF limit.t # "NoneType" /\ Len(ln) > limit.n
             THEN [raised |-> TRUE, message |-> msg]
             ELSE M_BatchLoop_Placeholder(lines, k + 1,
                                          Append(msg, Conversation(ln, sty)), sty, limit)

(* Fault: a line over the limit is skipped like an empty one. *)
RECURSIVE M_BatchLoop_SkipLong(_, _, _, _, _)
M_BatchLoop_SkipLong(lines, k, msg, sty, limit) ==
    IF k > Len(lines) THEN [raised |-> FALSE, message |-> msg]
    ELSE IF lines[k].t # "str" THEN M_BatchLoop_SkipLong(lines, k + 1, msg, sty, limit)
    ELSE LET ln == strip(lines[k].s)
         IN  IF ln = <<>> THEN M_BatchLoop_SkipLong(lines, k + 1, msg, sty, limit)
             ELSE IF limit.t # "NoneType" /\ Len(ln) > limit.n
                  THEN M_BatchLoop_SkipLong(lines, k + 1, msg, sty, limit)
                  ELSE M_BatchLoop_SkipLong(lines, k + 1,
                                            Append(msg, Conversation(ln, sty)), sty, limit)

(* The for loop of lines 79-98 from line k on, msg being the list built so *)
(* far: it ends by running off the list or by raising at line 87.          *)
RECURSIVE BatchLoop(_, _, _, _, _)
BatchLoop(lines, k, msg, sty, limit) ==
    IF k > Len(lines) THEN [raised |-> FALSE, message |-> msg]
    ELSE IF lines[k].t # "str" THEN BatchLoop(lines, k + 1, msg, sty, limit)
    ELSE LET ln == strip(lines[k].s)
         IN  IF ln = <<>> THEN BatchLoop(lines, k + 1, msg, sty, limit)
             ELSE IF limit.t # "NoneType" /\ Len(ln) > limit.n
                  THEN [raised |-> TRUE, message |-> msg]
                  ELSE BatchLoop(lines, k + 1,
                                 Append(msg, Conversation(ln, sty)), sty, limit)

(* inference up to the call of pipe: the error raised, or the arguments    *)
(* pipe is called with.                                                    *)
Raise(e, msg) == [error |-> e, message |-> msg, kwargs |-> <<>>]
CallPipe(msg, kw) == [error |-> "none", message |-> msg, kwargs |-> kw]

(* Fault: the check of line 99 is missing, pipe is called with no request. *)
M_inference_NoEmptyCheck(sty, inp, pip, tok, limit) ==
    IF sty.t # "str" THEN Raise("TypeError: style", <<>>)
    ELSE IF pip.t # "TextGenerationPipeline" THEN Raise("TypeError: pipe", <<>>)
    ELSE IF inp.t = "str"
    THEN LET stripped == strip(inp.s)
         IN  IF stripped = <<>> THEN Raise("ValueError: empty input", <<>>)
             ELSE IF limit.t # "NoneType" /\ Len(stripped) > limit.n
                  THEN Raise("ValueError: input too long", <<>>)
                  ELSE CallPipe(Conversation(stripped, sty),
                                <<[batch_size |-> NoneInt, max_new_tokens |-> tok]>>)
    ELSE IF inp.t = "list"
    THEN LET r == BatchLoop(inp.l, 1, <<>>, sty, limit)
         IN  IF r.raised THEN Raise("ValueError: line too long", r.message)
             ELSE CallPipe(r.message,
                           <<[batch_size |-> IntVal(16), max_new_tokens |-> tok]>>)
    ELSE Raise("TypeError: input", <<>>)

(* Fault: the length of the str input is checked before it is stripped. *)
M_inference_LenBeforeStrip(sty, inp, pip, tok, limit) ==
    IF sty.t # "str" THEN Raise("TypeError: style", <<>>)
    ELSE IF pip.t # "TextGenerationPipeline" THEN Raise("TypeError: pipe", <<>>)
    ELSE IF inp.t = "str"
    THEN LET stripped == strip(inp.s)
         IN  IF stripped = <<>> THEN Raise("ValueError: empty input", <<>>)
             ELSE IF limit.t # "NoneType" /\ Len(inp.s) > limit.n
                  THEN Raise("ValueError: input too long", <<>>)
                  ELSE CallPipe(Conversation(stripped, sty),
                                <<[batch_size |-> NoneInt, max_new_tokens |-> tok]>>)
    ELSE IF inp.t = "list"
    THEN LET r == BatchLoop(inp.l, 1, <<>>, sty, limit)
         IN  IF r.raised THEN Raise("ValueError: line too long", r.message)
             ELSE IF r.message = <<>> THEN Raise("ValueError: empty list", <<>>)
             ELSE CallPipe(r.message,
                           <<[batch_size |-> IntVal(16), max_new_tokens |-> tok]>>)
    ELSE Raise("TypeError: input", <<>>)

inference(sty, inp, pip, tok, limit) ==
    IF sty.t # "str" THEN Raise("TypeError: style", <<>>)
    ELSE IF pip.t # "TextGenerationPipeline" THEN Raise("TypeError: pipe", <<>>)
    ELSE IF inp.t = "str"
    THEN LET stripped == strip(inp.s)
         IN  IF stripped = <<>> THEN Raise("ValueError: empty input", <<>>)
             ELSE IF limit.t # "NoneType" /\ Len(stripped) > limit.n
                  THEN Raise("ValueError: input too long", <<>>)
                  ELSE CallPipe(Conversation(stripped, sty),
                                <<[batch_size |-> NoneInt, max_new_tokens |-> tok]>>)
    ELSE IF inp.t = "list"
    THEN LET r == BatchLoop(inp.l, 1, <<>>, sty, limit)
         IN  IF r.raised THEN Raise("ValueError: line too long", r.message)
             ELSE IF r.message = <<>> THEN Raise("ValueError: empty list", <<>>)
             ELSE CallPipe(r.message,
                           <<[batch_size |-> IntVal(16), max_new_tokens |-> tok]>>)
    ELSE Raise("TypeError: input", <<>>)

(* The engine: the output for one conversation is a list of one record     *)
(* whose generated_text is the conversation with the assistant's turn      *)
(* added; for a list of conversations, the list of these outputs.          *)
ENGINE_TAG == <<82, 58>>
Generate(conv) ==
    << [generated_text |->
           Append(conv, [role |-> "assistant",
                         content |-> ENGINE_TAG \o conv[2].content])] >>

Last(q) == q[Len(q)]

(* lines 75 and 102: the content of the last turn *)
Extract(out) == Last(out[1].generated_text).content

LineTexts == SeqsUpTo({32, 97}, MaxStrLen)
Lines     == {Str(s) : s \in LineTexts} \cup
             {Bytes([k \in 1..(MaxLenLimit + 2) |-> 97])}
Inputs    == {StrIn(s) : s \in LineTexts} \cup
             {ListIn(l) : l \in SeqsUpTo(Lines, MaxLines)} \cup
             {TupleIn}
LenLimits == {NoneInt} \cup {IntVal(n) : n \in 0..MaxLenLimit}

(* inference, lines 55-101: validate, build the request, call pipe. *)
Inference ==
    /\ inf_pc = "call"
    /\ LET r == inference(style, input, pipe, token_limit, len_limit)
       IN  /\ message' = r.message
           /\ error' = r.error
           /\ IF r.error = "none"
              THEN /\ engine_log' = Append(engine_log,
                                           [args |-> r.message, kwargs |-> r.kwargs[1]])
                   /\ inf_pc' = "pipe"
              ELSE /\ engine_log' = engine_log
                   /\ inf_pc' = "raised"
    /\ UNCHANGED <<style, input, pipe, token_limit, len_limit, answer>>
    /\ UNCHANGED <<wordsVars, typeVars, loopVars>>

(* pipe returns: lines 75 and 102-107 extract the answer and return it. *)
PipeReturn ==
    /\ inf_pc = "pipe"
    /\ answer' = IF input.t = "str"
                 THEN Extract(Generate(message))
                 ELSE [k \in 1..Len(message) |-> Extract(Generate(message[k]))]
    /\ inf_pc' = "returned"
    /\ UNCHANGED <<style, input, pipe, token_limit, len_limit, message, error,
                   engine_log>>
    /\ UNCHANGED <<wordsVars, typeVars, loopVars>>

(* Fault: an error of pipe is caught and the call is made again. *)
M_PipeRaise_Retry ==
    /\ inf_pc = "pipe"
    /\ Len(engine_log) < 2
    /\ engine_log' = Append(engine_log, Last(engine_log))
    /\ UNCHANGED <<inf_pc, style, input, pipe, token_limit, len_limit, message,
                   answer, error>>
    /\ UNCHANGED <<wordsVars, typeVars, loopVars>>

(* pipe raises: nothing in inference catches it. *)
PipeRaise ==
    /\ inf_pc = "pipe"
    /\ error' = "EngineError"
    /\ inf_pc' = "raised"
    /\ UNCHANGED <<style, input, pipe, token_limit, len_limit, message, answer,
                   engine_log>>
    /\ UNCHANGED <<wordsVars, typeVars, loopVars>>

InfNext == Inference \/ PipeReturn \/ PipeRaise

----------------------------------------------------------------------------
(* Initial states: one of the four operations starts, the others rest. *)

(* count_words is called with a text. *)
WordsInit ==
    /\ cw_pc = "call"
    /\ text \in WordTexts
    /\ cw_result = 0
    (* detect_letter_type is not running *)
    /\ lt_pc = "idle"
    /\ letter_type_arg = NoneVal
    /\ lt_result = <<>>
    (* main is not running *)
    /\ pc = "idle"
    /\ letter_type = FORMAL
    /\ body = <<>>
    /\ w = 0
    /\ tries_done = 0
    /\ sent = NoCall
    /\ calls = 0
    /\ engine = [kind |-> "free", delta |-> 0]
    /\ first_body = <<>>
    /\ all_outside = TRUE
    /\ last_reply = <<>>
    (* inference is not running *)
    /\ inf_pc = "idle"
    /\ style = NoneVal
    /\ input = TupleIn
    /\ pipe = Callable
    /\ token_limit = NoneInt
    /\ len_limit = NoneInt
    /\ message = <<>>
    /\ answer = <<>>
    /\ error = "none"
    /\ engine_log = <<>>

(* detect_letter_type is called with a flag. *)
TypeInit ==
    /\ lt_pc = "call"
    /\ letter_type_arg \in Flags
    /\ lt_result = <<>>
    (* count_words is not running *)
    /\ cw_pc = "idle"
    /\ text = <<>>
    /\ cw_result = 0
    (* main is not running *)
    /\ pc = "idle"
    /\ letter_type = FORMAL
    /\ body = <<>>
    /\ w = 0
    /\ tries_done = 0
    /\ sent = NoCall
    /\ calls = 0
    /\ engine = [kind |-> "free", delta |-> 0]
    /\ first_body = <<>>
    /\ all_outside = TRUE
    /\ last_reply = <<>>
    (* inference is not running *)
    /\ inf_pc = "idle"
    /\ style = NoneVal
    /\ input = TupleIn
    /\ pipe = Callable
    /\ token_limit = NoneInt
    /\ len_limit = NoneInt
    /\ message = <<>>
    /\ answer = <<>>
    /\ error = "none"
    /\ engine_log = <<>>

(* main at line 73: body is the reply to the first style transfer. *)
LoopInit ==
    /\ pc = "for"
    /\ letter_type \in {FORMAL, INFORMAL}
    /\ body \in {MkText(n) : n \in BodyWords}
    /\ w = 0
    /\ tries_done = 0
    /\ sent = NoCall
    /\ calls = 0
    /\ engine \in Engines
    /\ first_body = body
    /\ all_outside = TRUE
    /\ last_reply = body
    (* count_words is not running *)
    /\ cw_pc = "idle"
    /\ text = <<>>
    /\ cw_result = 0
    (* detect_letter_type is not running *)
    /\ lt_pc = "idle"
    /\ letter_type_arg = NoneVal
    /\ lt_result = <<>>
    (* inference is not running *)
    /\ inf_pc = "idle"
    /\ style = NoneVal
    /\ input = TupleIn
    /\ pipe = Callable
    /\ token_limit = NoneInt
    /\ len_limit = NoneInt
    /\ message = <<>>
    /\ answer = <<>>
    /\ error = "none"
    /\ engine_log = <<>>

(* inference is called. *)
InfInit ==
    /\ inf_pc = "call"
    /\ style \in {Str(DEFAULT_STYLE), NoneVal}
    /\ input \in Inputs
    /\ pipe \in {Pipeline, Callable}
    /\ token_limit \in {IntVal(MAX_OUTPUT_TOKENS)}
    /\ len_limit \in LenLimits
    /\ message = <<>>
    /\ answer = <<>>
    /\ error = "none"
    /\ engine_log = <<>>
    (* count_words is not running *)
    /\ cw_pc = "idle"
    /\ text = <<>>
    /\ cw_result = 0
    (* detect_letter_type is not running *)
    /\ lt_pc = "idle"
    /\ letter_type_arg = NoneVal
    /\ lt_result = <<>>
    (* main is not running *)
    /\ pc = "idle"
    /\ letter_type = FORMAL
    /\ body = <<>>
    /\ w = 0
    /\ tries_done = 0
    /\ sent = NoCall
    /\ calls = 0
    /\ engine = [kind |-> "free", delta |-> 0]
    /\ first_body = <<>>
    /\ all_outside = TRUE
    /\ last_reply = <<>>

----------------------------------------------------------------------------
(* Specifications *)

WordsSpec == WordsInit /\ [][CountWords]_vars
TypeSpec  == TypeInit /\ [][DetectLetterType]_vars
LoopSpec  == LoopInit /\ [][LoopNext]_vars
InfSpec   == InfInit /\ [][InfNext]_vars

----------------------------------------------------------------------------
(* Properties of count_words, checked under WordsSpec *)

(* The word characters as the specification lists them: Latin letters,     *)
(* the letters of the Russian alphabet with Ё and ё, digits, apostrophe.   *)
WordCharacters ==
    (65..90) \cup (97..122) \cup (1040..1103) \cup {1025, 1105} \cup (48..57) \cup {39}

(* The positions where a word character is not preceded by one. *)
RunStarts(txt) ==
    {k \in 1..Len(txt) :
        /\ txt[k] \in WordCharacters
        /\ (k = 1 \/ txt[k - 1] \notin WordCharacters)}

(* C8: count_words returns the number of maximal runs of word characters:  *)
(* the number of positions where a word character is not preceded by a     *)
(* word character, 0 for a text without word characters, 4 and 2 for the   *)
(* two examples of the specification.                                      *)
C8_CountIsNumberOfRuns ==
    cw_pc = "returned" =>
        /\ cw_result = Cardinality(RunStarts(text))
        /\ ((\A k \in 1..Len(text) : text[k] \notin WordCharacters) => cw_result = 0)
        /\ (text = HELLO => cw_result = 4)
        /\ (text = PRIVET => cw_result = 2)

(* A text of two runs, one of them holding an apostrophe and a ё. *)
C8_Witness ==
    /\ cw_pc = "returned"
    /\ text = <<39, 1105, 32, 97>>
    /\ cw_result = 2

----------------------------------------------------------------------------
(* Properties of detect_letter_type, checked under TypeSpec *)

(* s without the white space around it. *)
Core(s) ==
    LET inked == {k \in 1..Len(s) : ~IsSpace(s[k])}
    IN  IF inked = {} THEN <<>>
        ELSE SubSeq(s, CHOOSE k \in inked : \A j \in inked : k <= j,
                       CHOOSE k \in inked : \A j \in inked : k >= j)

(* a spells the lower-case word b, in whatever case. *)
SpellsIgnoringCase(a, b) ==
    /\ Len(a) = Len(b)
    /\ \A k \in 1..Len(a) : a[k] = b[k] \/ a[k] + 32 = b[k]

RecognisedInformal(arg) ==
    /\ arg.t = "str"
    /\ \E sp \in InformalSpellings : SpellsIgnoringCase(Core(arg.s), sp)

(* C9: detect_letter_type returns the formal or the informal value, and    *)
(* the informal one exactly when the flag, stripped and in lower case, is  *)
(* a recognised informal spelling; None, the empty flag and every other    *)
(* flag give the formal value.                                             *)
C9_TwoValuesInformalOnlyWhenRecognised ==
    lt_pc = "returned" =>
        /\ lt_result \in {FORMAL, INFORMAL}
        /\ (lt_result = INFORMAL <=> RecognisedInformal(letter_type_arg))
        /\ (Falsy(letter_type_arg) => lt_result = FORMAL)

(* An informal spelling in upper case with white space around it. *)
C9_Witness ==
    /\ lt_pc = "returned"
    /\ letter_type_arg = Str(<<32>> \o Upper(S_dr) \o <<10>>)
    /\ lt_result = INFORMAL

----------------------------------------------------------------------------
(* Properties of the refinement loop, checked under LoopSpec *)

(* The attempt budget the specification states. *)
AttemptBudget == 6

(* What is left of the loop: two steps for every pass not yet made, the   *)
(* step out of the loop, less the step already made in the current pass.   *)
LoopRank ==
    2 * (AttemptBudget - tries_done) + (IF pc = "for" THEN 2 ELSE IF pc = "call" THEN 1 ELSE 0)

(* C1: when the first body and every reply to a correction are out of      *)
(* bounds, the loop makes exactly AttemptBudget correction calls, then     *)
(* ends with the last reply as the body, still out of bounds.  It ends, as *)
(* every step brings LoopRank down and LoopRank stays at or above 0, and   *)
(* it ends in "done", the only way out: no error is raised.                *)
C1_ExhaustionSafe ==
    /\ pc \in {"for", "call", "done"}
    /\ tries_done <= AttemptBudget
    /\ LoopRank >= 0
    /\ (~InBounds(count_words(first_body)) /\ all_outside) =>
          /\ calls <= AttemptBudget
          /\ pc = "done" =>
                /\ calls = AttemptBudget
                /\ body = last_reply
                /\ ~InBounds(count_words(body))

C1_ExhaustsBudgetAndEnds ==
    []C1_ExhaustionSafe /\ [][LoopRank' < LoopRank]_vars

(* The budget used up by an engine whose replies differ but stay out of    *)
(* bounds.                                                                 *)
C1_Witness ==
    /\ pc = "done"
    /\ engine.kind = "free"
    /\ all_outside
    /\ calls = AttemptBudget
    /\ body # first_body
    /\ ~InBounds(count_words(first_body))

(* C2: with an engine that grows the body by a fixed number of words, when *)
(* the first body or one of the AttemptBudget corrections after it is in   *)
(* bounds, the loop ends after at most AttemptBudget calls with a body in  *)
(* bounds.                                                                 *)
C2_ConvergesWhenReachable ==
    (/\ pc = "done"
     /\ engine.kind = "grow"
     /\ \E k \in 0..AttemptBudget :
            InBounds(count_words(first_body) + k * engine.delta)) =>
        /\ calls <= AttemptBudget
        /\ InBounds(count_words(body))

(* Only the last correction lands in bounds. *)
C2_Witness ==
    /\ pc = "done"
    /\ engine.kind = "grow"
    /\ calls = AttemptBudget
    /\ InBounds(count_words(body))
    /\ ~InBounds(count_words(body) - engine.delta)

EndsWith(txt, suffix) ==
    /\ Len(txt) >= Len(suffix)
    /\ SubSeq(txt, Len(txt) - Len(suffix) + 1, Len(txt)) = suffix

(* C10: every pass checks the body first: in bounds, the loop ends with    *)
(* the body as it is and no call; out of bounds, one call is made, with    *)
(* the expand instruction exactly when the count is below MIN_WORDS and    *)
(* the shorten instruction exactly when it is above MAX_WORDS, and the     *)
(* reply to it uses up one attempt.  Once ended, no call is made.          *)
C10_PassOfLoop ==
    /\ (pc = "for" /\ tries_done < AttemptBudget) =>
          IF InBounds(count_words(body))
          THEN pc' = "done" /\ body' = body /\ calls' = calls /\ sent' = sent
          ELSE /\ pc' = "call"
               /\ body' = body
               /\ calls' = calls + 1
               /\ tries_done' = tries_done
               /\ (sent'.text = body \o EXPAND_INSTR <=> count_words(body) < MIN_WORDS)
               /\ (sent'.text = body \o SHORTEN_INSTR <=> count_words(body) > MAX_WORDS)
    /\ pc = "call" =>
          /\ pc' = "for"
          /\ calls' = calls
          /\ tries_done' = tries_done + 1
    /\ pc = "done" => (body' = body /\ calls' = calls /\ pc' = "done")

C10_CheckBeforeCorrection == [][C10_PassOfLoop]_vars

(* A body accepted after a shorten correction, with attempts left. *)
C10_Witness ==
    /\ pc = "done"
    /\ calls > 0
    /\ tries_done < AttemptBudget
    /\ EndsWith(sent.text, SHORTEN_INSTR)
    /\ InBounds(count_words(body))

----------------------------------------------------------------------------
(* Properties of inference, checked under InfSpec *)

TypesOk == style.t = "str" /\ pipe.t = "TextGenerationPipeline"

HasLimit == len_limit.t = "int"

(* A line that is kept: a str, not empty once stripped, within the limit. *)
IsValidLine(x) ==
    /\ x.t = "str"
    /\ Core(x.s) # <<>>
    /\ (HasLimit => Len(Core(x.s)) <= len_limit.n)

IsOverLimit(x) ==
    /\ x.t = "str"
    /\ HasLimit
    /\ Len(Core(x.s)) > len_limit.n

ValidLines == SelectSeq(input.l, IsValidLine)

UserContent(txt) == USER_PREFIX \o txt \o USER_MIDDLE \o style.s

Called == inf_pc # "call"

(* C3: a list with a valid line and no line over the limit: pipe is called *)
(* with one conversation per valid line, in the order of the lines, and    *)
(* the list returned has the reply to the i-th valid line as entry i; the  *)
(* skipped lines leave no entry.                                           *)
C3_BatchKeepsValidLinesInOrder ==
    (/\ Called
     /\ TypesOk
     /\ input.t = "list"
     /\ ValidLines # <<>>
     /\ \A k \in 1..Len(input.l) : ~IsOverLimit(input.l[k])) =>
        /\ Len(engine_log) = 1
        /\ Len(engine_log[1].args) = Len(ValidLines)
        /\ \A k \in 1..Len(ValidLines) :
              /\ Len(engine_log[1].args[k]) = 2
              /\ engine_log[1].args[k][2].content = UserContent(Core(ValidLines[k].s))
        /\ inf_pc = "returned" =>
              /\ Len(answer) = Len(ValidLines)
              /\ \A k \in 1..Len(ValidLines) :
                    answer[k] =
                        Last(Generate(engine_log[1].args[k])[1].generated_text).content

(* Two different valid lines with a skipped line among three. *)
C3_Witness ==
    /\ inf_pc = "returned"
    /\ TypesOk
    /\ input.t = "list"
    /\ Len(input.l) = 3
    /\ ~IsValidLine(input.l[2])
    /\ Len(answer) = 2
    /\ answer[1] # answer[2]

(* C4: a list with a str line over the limit fails with the error of line  *)
(* 87 and pipe is not called, whatever the other lines are; the error has  *)
(* no other cause: a line that is empty once stripped or that is no str    *)
(* does not raise it.                                                      *)
C4_OverLimitLineFailsBatch ==
    (Called /\ TypesOk /\ input.t = "list") =>
        /\ (\E k \in 1..Len(input.l) : IsOverLimit(input.l[k])) =>
              /\ inf_pc = "raised"
              /\ error = "ValueError: line too long"
              /\ engine_log = <<>>
        /\ error = "ValueError: line too long" =>
              \E k \in 1..Len(input.l) :
                  /\ input.l[k].t = "str"
                  /\ Core(input.l[k].s) # <<>>
                  /\ HasLimit
                  /\ Len(Core(input.l[k].s)) > len_limit.n

(* The line over the limit stands between two valid lines. *)
C4_Witness ==
    /\ inf_pc = "raised"
    /\ error = "ValueError: line too long"
    /\ input.t = "list"
    /\ Len(input.l) = 3
    /\ IsValidLine(input.l[1])
    /\ IsOverLimit(input.l[2])
    /\ IsValidLine(input.l[3])

(* C5: a list without a str line that is not empty once stripped fails     *)
(* with the error of line 100 and pipe is not called.                      *)
C5_EmptyBatchFails ==
    (/\ Called
     /\ TypesOk
     /\ input.t = "list"
     /\ \A k \in 1..Len(input.l) :
            input.l[k].t # "str" \/ Core(input.l[k].s) = <<>>) =>
        /\ inf_pc = "raised"
        /\ error = "ValueError: empty list"
        /\ engine_log = <<>>

(* A list of a line that is no str and a line of white space. *)
C5_Witness ==
    /\ inf_pc = "raised"
    /\ error = "ValueError: empty list"
    /\ input.t = "list"
    /\ Len(input.l) = 2
    /\ input.l[1].t # "str"
    /\ input.l[2] = Str(<<32>>)

(* C6: a str input is stripped first: empty once stripped it fails with    *)
(* the error of line 68; with a limit, a stripped length of len_limit + 1  *)
(* or more fails with the error of line 70; otherwise pipe is called with  *)
(* the conversation of the stripped text.  pipe is not called in the two   *)
(* cases of failure.                                                       *)
C6_SingleInputValidation ==
    (Called /\ TypesOk /\ input.t = "str") =>
        IF Core(input.s) = <<>>
        THEN inf_pc = "raised" /\ error = "ValueError: empty input" /\ engine_log = <<>>
        ELSE IF HasLimit /\ Len(Core(input.s)) >= len_limit.n + 1
        THEN inf_pc = "raised" /\ error = "ValueError: input too long" /\ engine_log = <<>>
        ELSE /\ error \in {"none", "EngineError"}
             /\ Len(engine_log) = 1
             /\ Len(engine_log[1].args) = 2
             /\ engine_log[1].args[2].content = UserContent(Core(input.s))

(* An input longer than the limit only by the white space around it. *)
C6_Witness ==
    /\ inf_pc = "returned"
    /\ input.t = "str"
    /\ HasLimit
    /\ Len(input.s) > len_limit.n
    /\ Len(Core(input.s)) <= len_limit.n

(* The arguments pass every check of inference. *)
PassesValidation ==
    /\ TypesOk
    /\ \/ /\ input.t = "str"
          /\ Core(input.s) # <<>>
          /\ (HasLimit => Len(Core(input.s)) <= len_limit.n)
       \/ /\ input.t = "list"
          /\ ValidLines # <<>>
          /\ \A k \in 1..Len(input.l) : ~IsOverLimit(input.l[k])

(* C7: a call of inference calls pipe at most once: once when the          *)
(* arguments pass every check, never when a type or validation error is    *)
(* raised; an error of pipe ends the call after that one call.             *)
C7_EngineCalledAtMostOnce ==
    /\ Len(engine_log) <= 1
    /\ Called => (Len(engine_log) = 1 <=> PassesValidation)
    /\ (inf_pc = "raised" /\ error # "EngineError") => engine_log = <<>>
    /\ error = "EngineError" => (inf_pc = "raised" /\ Len(engine_log) = 1)
    /\ (inf_pc = "returned" \/ inf_pc = "pipe") => error = "none"
    /\ inf_pc = "raised" => error # "none"

(* pipe raised in a batch call. *)
C7_Witness ==
    /\ inf_pc = "raised"
    /\ error = "EngineError"
    /\ input.t = "list"
    /\ Len(engine_log) = 1

====
